---- MODULE Spec2Model ----
(***************************************************************************)
(* A model of libyul/YulStack.cpp: the pipeline state machine of the Yul   *)
(* compiler stack (parse, analyze, optimize + reparse, assemble).          *)
(*                                                                         *)
(* Every public member function is one action.  The collaborators that     *)
(* live outside YulStack.cpp (ObjectParser, AsmAnalyzer, OptimiserSuite,   *)
(* EVMObjectCompiler, MSizeFinder, Object::toString) are modelled by what  *)
(* their contract says; their behaviour on a unit is a function of the     *)
(* unit's text, so that the same text always behaves the same way.         *)
(***************************************************************************)
EXTENDS Naturals, Sequences, FiniteSets, TLC

(***************************************************************************)
(* Bounds of the model.                                                    *)
(***************************************************************************)
\* at most this many diagnostics are ever held by one instance
MaxErrors == 2
\* at most this many units of one source text deviate from the clean profile
MaxFaulty == 2
\* the parser emits at most this many diagnostics for one malformed text
MaxParserErrors == 1

(***************************************************************************)
(* enum State { Empty, Parsed, AnalysisSuccessful }, ordered as declared.  *)
(***************************************************************************)
Empty == 0
Parsed == 1
AnalysisSuccessful == 2

(***************************************************************************)
(* OptimiserSettings.                                                      *)
(***************************************************************************)
DefaultYulOptimiserSteps == "dhfoDgvulfnTUtnIf"
DefaultYulOptimiserCleanupSteps == "fDnTOcmu"

StepConfigs ==
    { [steps |-> "", cleanup |-> ""],
      [steps |-> DefaultYulOptimiserSteps, cleanup |-> DefaultYulOptimiserCleanupSteps],
      [steps |-> "ul", cleanup |-> "f"] }

OptimiserSettingsSet ==
    [ runYulOptimiser : BOOLEAN,
      optimizeStackAllocation : BOOLEAN,
      yulOptimiserSteps : {c.steps : c \in StepConfigs},
      yulOptimiserCleanupSteps : {c.cleanup : c \in StepConfigs},
      expectedExecutionsPerDeployment : {200} ]

SettingsDomain ==
    { s \in OptimiserSettingsSet :
        [steps |-> s.yulOptimiserSteps, cleanup |-> s.yulOptimiserCleanupSteps] \in StepConfigs }

(***************************************************************************)
(* Source text and the object tree.                                        *)
(*                                                                         *)
(* The body of a code unit is described by how the collaborators treat it: *)
(*   an    what AsmAnalyzer::analyze does on it: "ok", "warn" (succeeds    *)
(*         and emits a warning), "err" (fails with one error), "unimpl"    *)
(*         (throws UnimplementedFeatureError)                              *)
(*   opt   what OptimiserSuite::run does on it: "ok", "bad" (produces a    *)
(*         body that no longer analyzes), "unimpl" (throws)                *)
(*   gen   what EVMObjectCompiler::compile does on it: "ok" or "unimpl"    *)
(*         (throws UnimplementedFeatureError)                              *)
(*   msize whether the body contains the msize instruction                 *)
(*   rev   0 for text as written, 1 for text produced by the optimiser     *)
(***************************************************************************)
Body(an, opt, gen, msize) ==
    [an |-> an, opt |-> opt, gen |-> gen, msize |-> msize, rev |-> 0]

CleanBody == Body("ok", "ok", "ok", FALSE)

Profiles ==
    { CleanBody,
      Body("warn", "ok", "ok", FALSE),
      Body("err", "ok", "ok", FALSE),
      Body("unimpl", "ok", "ok", FALSE),
      Body("ok", "ok", "ok", TRUE),
      Body("ok", "bad", "ok", FALSE),
      Body("ok", "unimpl", "ok", FALSE),
      Body("ok", "ok", "unimpl", FALSE) }

NoBody == [an |-> "none", opt |-> "none", gen |-> "none", msize |-> FALSE, rev |-> 0]

\* a unit of source text: object "name" { code { body } subs... } or data "name"
TextCode(name, body, subs) == [name |-> name, kind |-> "code", body |-> body, subs |-> subs]
TextData(name) == [name |-> name, kind |-> "data", body |-> NoBody, subs |-> <<>>]

\* the tree shapes the source texts are drawn from
Shapes(b1, b2, b3) ==
    { TextCode("C", b1, <<>>),
      TextCode("C", b1, <<TextCode("A", b2, <<>>), TextCode("A_deployed", b3, <<>>)>>),
      TextCode("C", b1, <<TextCode("C_deployed", b2, <<TextCode("Lib", b3, <<>>)>>)>>),
      TextCode("C", b1, <<TextData(".metadata"), TextCode("Runtime", b2, <<>>)>>),
      TextCode("R_deployed", b1, <<>>) }

RECURSIVE CodeBodies(_)
CodeBodies(u) ==
    IF u.kind = "data" THEN <<>>
    ELSE LET RECURSIVE Sub(_)
             Sub(i) == IF i > Len(u.subs) THEN <<>>
                       ELSE CodeBodies(u.subs[i]) \o Sub(i + 1)
         IN <<u.body>> \o Sub(1)

Faulty(u) ==
    LET bs == CodeBodies(u)
    IN Cardinality({i \in 1..Len(bs) : bs[i] # CleanBody})

\* the profiles on which the analyzer fails
AnalysisFaults == { b \in Profiles : b.an \in {"err", "unimpl"} }

OnlyAnalysisFaults(u) ==
    LET bs == CodeBodies(u)
    IN \A i \in 1..Len(bs) : bs[i] \in AnalysisFaults \cup {CleanBody}

\* The texts a caller hands in: any one unit may carry any profile; texts with
\* several deviating units carry analysis faults, the only faults of different
\* units that one call reports together.
TextTrees ==
    { u \in UNION { Shapes(b1, b2, b3) : b1 \in Profiles, b2 \in Profiles, b3 \in Profiles } :
        /\ Faulty(u) <= MaxFaulty
        /\ Faulty(u) <= 1 \/ OnlyAnalysisFaults(u) }

NullUnit == [name |-> "", kind |-> "null", body |-> NoBody, subs |-> <<>>]

\* what a caller can hand to parse(): well-formed IR, malformed text for which
\* the parser emits n diagnostics and returns no tree, or text on which the
\* parser throws UnimplementedFeatureError
Sources ==
    { [kind |-> "ir", unit |-> u, n |-> 0] : u \in TextTrees }
    \cup { [kind |-> "bad", unit |-> NullUnit, n |-> n] : n \in 0..MaxParserErrors }
    \cup { [kind |-> "unimpl", unit |-> NullUnit, n |-> 0] }

SourceNames == {"input.yul"}

\* parse() and parseAndAnalyze() look at their arguments only after the assert on
\* m_stackState (lines 73 and 94) has passed
ParseArguments(stackState) ==
    IF stackState = Empty THEN Sources ELSE {[kind |-> "bad", unit |-> NullUnit, n |-> 0]}

(***************************************************************************)
(* Object (libyul/Object.h): a node of the tree held in m_parserResult.    *)
(* It is the text unit plus the analysisInfo pointer (set or null), and    *)
(* mutated: the optimiser suite has rewritten this object's code in place  *)
(* since the tree was parsed.                                              *)
(***************************************************************************)
RECURSIVE MakeObject(_)
MakeObject(u) ==
    [name |-> u.name, kind |-> u.kind, body |-> u.body,
     analysisInfo |-> FALSE, mutated |-> FALSE,
     subs |-> [i \in 1..Len(u.subs) |-> MakeObject(u.subs[i])]]

\* Object::toString: the text of a tree; analysis results are not printed
RECURSIVE ObjectToString(_)
ObjectToString(o) ==
    [name |-> o.name, kind |-> o.kind, body |-> o.body,
     subs |-> [i \in 1..Len(o.subs) |-> ObjectToString(o.subs[i])]]

NullObject ==
    [name |-> "", kind |-> "null", body |-> NoBody, analysisInfo |-> FALSE,
     mutated |-> FALSE, subs |-> <<>>]

\* std::shared_ptr<Object>: null, or pointing to the root of a tree
NullTree == [present |-> FALSE, root |-> NullObject]
NullStream == [present |-> FALSE, name |-> "", source |-> [kind |-> "none", unit |-> NullUnit, n |-> 0]]

\* Object::hasCode
HasCode(o) == o.kind = "code"

\* ObjectParser::parse: the tree, the diagnostics it reported, whether it threw
ObjectParserParse(source) ==
    CASE source.kind = "ir" ->
            [tree |-> MakeObject(source.unit), errs |-> <<>>, throws |-> FALSE]
      [] source.kind = "bad" ->
            [tree |-> NullObject, errs |-> [i \in 1..source.n |-> "ParserError"], throws |-> FALSE]
      [] OTHER ->
            [tree |-> NullObject, errs |-> <<>>, throws |-> TRUE]

\* MSizeFinder::containsMSize(dialect, object): the code of the object or of any sub-object
RECURSIVE ContainsMSize(_)
ContainsMSize(o) ==
    /\ o.kind = "code"
    /\ \/ o.body.msize
       \/ \E i \in 1..Len(o.subs) : ContainsMSize(o.subs[i])

\* OptimiserSuite::isEmptyOptimizerSequence
IsEmptyOptimizerSequence(sequence) == sequence = ":"

\* boost::ends_with
EndsWith(str, suffix) ==
    /\ Len(str) >= Len(suffix)
    /\ SubSeq(str, Len(str) - Len(suffix) + 1, Len(str)) = suffix


(***************************************************************************)
(* Diagnostics (the entries of m_errors).                                  *)
(***************************************************************************)
\* a handler that swallows the fault without reporting it
ReportUnimplementedFeatureError_Silent(errors) == errors

\* YulStack::reportUnimplementedFeatureError: one diagnostic, error id 1920.
\* (The solAssert on the comment holds for every fault the collaborators raise.)
ReportUnimplementedFeatureError(errors) == Append(errors, "Unimplemented1920")

\* AsmAnalyzer::analyze on one body: result, diagnostics reported, whether it threw
AsmAnalyzerAnalyze(body) ==
    CASE body.an = "ok" -> [success |-> TRUE, errs |-> <<>>, throws |-> FALSE]
      [] body.an = "warn" -> [success |-> TRUE, errs |-> <<"Warning">>, throws |-> FALSE]
      [] body.an = "err" -> [success |-> FALSE, errs |-> <<"TypeError">>, throws |-> FALSE]
      [] OTHER -> [success |-> FALSE, errs |-> <<>>, throws |-> TRUE]

(***************************************************************************)
(* YulStack::analyzeParsed(Object&), lines 139-172.                        *)
(* The result carries the object (analysisInfo set where visited), the     *)
(* return value, the diagnostics appended, the units visited in order and  *)
(* whether line 169 was executed by this call or a nested one.             *)
(***************************************************************************)
\* the loop of lines 157-160 is inside the try block: it runs iff analyze() returned
LoopOverSubObjects(ownThrows) == ~ownThrows

\* line 168: the call that assigns AnalysisSuccessful
SetsAnalysisSuccessful(success) == success

RECURSIVE AnalyzeParsedObject(_)
AnalyzeParsedObject(o) ==
    LET own == AsmAnalyzerAnalyze(o.body)
        start == [subs |-> <<>>, success |-> own.success, errs |-> own.errs,
                  visited |-> <<o.name>>, setState |-> FALSE]
        RECURSIVE Loop(_, _)
        Loop(i, acc) ==
            IF i > Len(o.subs) THEN acc
            ELSE IF ~HasCode(o.subs[i]) \/ ~LoopOverSubObjects(own.throws)
                 THEN Loop(i + 1, [acc EXCEPT !.subs = Append(@, o.subs[i])])
                 ELSE LET r == AnalyzeParsedObject(o.subs[i])
                      IN Loop(i + 1,
                              [subs |-> Append(acc.subs, r.obj),
                               success |-> acc.success /\ r.success,
                               errs |-> acc.errs \o r.errs,
                               visited |-> acc.visited \o r.visited,
                               setState |-> acc.setState \/ r.setState])
        done == Loop(1, start)
        success == IF own.throws THEN FALSE ELSE done.success
    IN [obj |-> [o EXCEPT !.analysisInfo = TRUE, !.subs = done.subs],
        success |-> success,
        errs |-> IF own.throws THEN ReportUnimplementedFeatureError(done.errs) ELSE done.errs,
        visited |-> done.visited,
        setState |-> done.setState \/ SetsAnalysisSuccessful(success)]

(***************************************************************************)
(* YulStack::optimize(Object&, bool), lines 194-246.                       *)
(***************************************************************************)
\* a resolution that treats the explicit empty sequence like the default one
ResolveSteps_EmptyAsDefault(settings) ==
    IF ~settings.runYulOptimiser
    THEN [failed |-> FALSE, optimizeStackAllocation |-> TRUE, steps |-> "u", cleanup |-> ""]
    ELSE [failed |-> FALSE,
          optimizeStackAllocation |-> settings.optimizeStackAllocation,
          steps |-> settings.yulOptimiserSteps,
          cleanup |-> settings.yulOptimiserCleanupSteps]

\* a resolution whose fallback runs the configured default sequences in full
ResolveSteps_FallbackRunsDefaults(settings) ==
    IF ~settings.runYulOptimiser
    THEN IF IsEmptyOptimizerSequence(
               settings.yulOptimiserSteps \o ":" \o settings.yulOptimiserCleanupSteps)
         THEN [failed |-> FALSE, optimizeStackAllocation |-> TRUE, steps |-> "", cleanup |-> ""]
         ELSE [failed |-> FALSE, optimizeStackAllocation |-> TRUE,
               steps |-> settings.yulOptimiserSteps,
               cleanup |-> settings.yulOptimiserCleanupSteps]
    ELSE [failed |-> FALSE,
          optimizeStackAllocation |-> settings.optimizeStackAllocation,
          steps |-> settings.yulOptimiserSteps,
          cleanup |-> settings.yulOptimiserCleanupSteps]

\* a resolution without the assertion: any other sequence gets the fallback
ResolveSteps_AcceptsAnySequence(settings) ==
    IF ~settings.runYulOptimiser
    THEN IF IsEmptyOptimizerSequence(
               settings.yulOptimiserSteps \o ":" \o settings.yulOptimiserCleanupSteps)
         THEN [failed |-> FALSE, optimizeStackAllocation |-> TRUE, steps |-> "", cleanup |-> ""]
         ELSE [failed |-> FALSE, optimizeStackAllocation |-> TRUE, steps |-> "u", cleanup |-> ""]
    ELSE [failed |-> FALSE,
          optimizeStackAllocation |-> settings.optimizeStackAllocation,
          steps |-> settings.yulOptimiserSteps,
          cleanup |-> settings.yulOptimiserCleanupSteps]

\* lines 210-233: the (optimizeStackAllocation, steps, cleanup) handed to the suite;
\* failed is the yulAssert of lines 220-223
ResolveSteps(settings) ==
    IF ~settings.runYulOptimiser
    THEN IF IsEmptyOptimizerSequence(
               settings.yulOptimiserSteps \o ":" \o settings.yulOptimiserCleanupSteps)
         THEN [failed |-> FALSE, optimizeStackAllocation |-> TRUE, steps |-> "", cleanup |-> ""]
         ELSE IF /\ settings.yulOptimiserSteps = DefaultYulOptimiserSteps
                 /\ settings.yulOptimiserCleanupSteps = DefaultYulOptimiserCleanupSteps
              THEN [failed |-> FALSE, optimizeStackAllocation |-> TRUE, steps |-> "u", cleanup |-> ""]
              ELSE [failed |-> TRUE, optimizeStackAllocation |-> TRUE, steps |-> "u", cleanup |-> ""]
    ELSE [failed |-> FALSE,
          optimizeStackAllocation |-> settings.optimizeStackAllocation,
          steps |-> settings.yulOptimiserSteps,
          cleanup |-> settings.yulOptimiserCleanupSteps]

\* line 201: a sub-object is creation code unless its name ends with "_deployed"
IsCreationName(name) == ~EndsWith(name, "_deployed")

\* a weight that is handed to the suite for every unit
ExpectedExecutionsArg_AlwaysPassed(isCreation, settings) ==
    [present |-> TRUE, value |-> settings.expectedExecutionsPerDeployment]

\* line 243: the expected-executions weight argument (std::optional)
ExpectedExecutionsArg(isCreation, settings) ==
    IF isCreation THEN [present |-> FALSE, value |-> 0]
    ELSE [present |-> TRUE, value |-> settings.expectedExecutionsPerDeployment]

\* OptimiserSuite::run on one body: the body it leaves, or a fault
OptimiserSuiteRun(body) ==
    CASE body.opt = "ok" -> [body |-> [body EXCEPT !.rev = 1], throws |-> FALSE]
      [] body.opt = "bad" -> [body |-> [body EXCEPT !.rev = 1, !.an = "err"], throws |-> FALSE]
      [] OTHER -> [body |-> body, throws |-> TRUE]

\* one entry of the record of suite invocations (lines 235-245)
SuiteCall(o, isCreation, settings, r) ==
    [unit |-> o.name,
     isCreation |-> isCreation,
     optimizeStackAllocation |-> r.optimizeStackAllocation,
     steps |-> r.steps,
     cleanup |-> r.cleanup,
     weight |-> ExpectedExecutionsArg(isCreation, settings)]

\* a traversal that only an assertion failure stops
AbortsTraversal_OnlyAsserts(status) == status = "fatal"

\* lines 197-203: an exception that leaves the recursive call for a sub-object
\* leaves the loop and the rest of this call as well
AbortsTraversal(status) == status # "ok"

\* a traversal that runs the suite on an object before its sub-objects
SuiteCallsInOrder_ParentFirst(subObjectCalls, ownCall) == <<ownCall>> \o subObjectCalls

\* lines 197-245: the loop over the sub-objects precedes the suite run on the
\* object's own code
SuiteCallsInOrder(subObjectCalls, ownCall) == Append(subObjectCalls, ownCall)

\* status: "ok", "throw" (UnimplementedFeatureError leaves the call) or "fatal" (yulAssert)
RECURSIVE OptimizeObject(_, _, _)
OptimizeObject(o, isCreation, settings) ==
    IF ~HasCode(o) \/ ~o.analysisInfo
    THEN [obj |-> o, status |-> "fatal", log |-> <<>>]
    ELSE
    LET RECURSIVE Loop(_, _)
        Loop(i, acc) ==
            IF i > Len(o.subs) THEN acc
            ELSE IF AbortsTraversal(acc.status) \/ ~HasCode(o.subs[i])
                 THEN Loop(i + 1, [acc EXCEPT !.subs = Append(@, o.subs[i])])
                 ELSE LET r == OptimizeObject(o.subs[i], IsCreationName(o.subs[i].name), settings)
                      IN Loop(i + 1,
                              [subs |-> Append(acc.subs, r.obj),
                               status |-> r.status,
                               log |-> acc.log \o r.log])
        kids == Loop(1, [subs |-> <<>>, status |-> "ok", log |-> <<>>])
        withKids == [o EXCEPT !.subs = kids.subs]
        resolved == ResolveSteps(settings)
        run == OptimiserSuiteRun(o.body)
    IN IF AbortsTraversal(kids.status)
       THEN [obj |-> withKids, status |-> kids.status, log |-> kids.log]
       ELSE IF resolved.failed
       THEN [obj |-> withKids, status |-> "fatal", log |-> kids.log]
       ELSE [obj |-> [withKids EXCEPT !.body = run.body, !.mutated = @ \/ ~run.throws],
             status |-> IF run.throws THEN "throw" ELSE "ok",
             log |-> SuiteCallsInOrder(kids.log, SuiteCall(o, isCreation, settings, resolved))]

(***************************************************************************)
(* A YulStack instance: its data members.  The settings it was constructed *)
(* with never change and are passed alongside.                             *)
(***************************************************************************)
NewStack ==
    [m_stackState |-> Empty, m_parserResult |-> NullTree,
     m_charStream |-> NullStream, m_errors |-> <<>>]

\* a parse() that moves to Parsed whatever the diagnostic list holds
ErrorsEmpty_Always(errors) == TRUE

\* line 85: m_errorReporter.errors().empty()
ErrorsEmpty(errors) == errors = <<>>

\* YulStack::parse, lines 71-89.  newTree: m_parserResult now points to a tree
\* allocated during this call.
ParseStack(st, name, source) ==
    IF st.m_stackState # Empty
    THEN [st |-> st, ret |-> FALSE, fatal |-> TRUE, newTree |-> FALSE]
    ELSE
    LET p == ObjectParserParse(source)
        errors == IF p.throws THEN ReportUnimplementedFeatureError(st.m_errors)
                  ELSE st.m_errors \o p.errs
        result == IF p.throws THEN st.m_parserResult
                  ELSE IF HasCode(p.tree) THEN [present |-> TRUE, root |-> p.tree]
                  ELSE NullTree
        state == IF ErrorsEmpty(errors) THEN Parsed ELSE st.m_stackState
    IN [st |-> [m_stackState |-> state,
                m_parserResult |-> result,
                m_charStream |-> [present |-> TRUE, name |-> name, source |-> source],
                m_errors |-> errors],
        ret |-> state = Parsed,
        fatal |-> FALSE,
        newTree |-> result.present /\ ~p.throws]

\* YulStack::analyzeParsed(), lines 132-137, with the asserts of lines 141-142
AnalyzeParsedStack(st) ==
    IF \/ st.m_stackState < Parsed
       \/ st.m_parserResult.present = FALSE
       \/ ~HasCode(st.m_parserResult.root)
    THEN [st |-> st, ret |-> FALSE, fatal |-> TRUE, visited |-> <<>>, newTree |-> FALSE]
    ELSE
    LET r == AnalyzeParsedObject(st.m_parserResult.root)
    IN [st |-> [st EXCEPT !.m_stackState = IF r.setState THEN AnalysisSuccessful ELSE @,
                          !.m_parserResult.root = r.obj,
                          !.m_errors = @ \o r.errs],
        ret |-> r.success,
        fatal |-> FALSE,
        visited |-> r.visited,
        newTree |-> FALSE]

\* a parseAndAnalyze that keeps the diagnostics of earlier calls
ClearErrors_Keeps(errors) == errors

\* line 93: m_errors.clear()
ClearErrors(errors) == <<>>

\* YulStack::parseAndAnalyze, lines 91-104
ParseAndAnalyzeStack(st, name, source) ==
    LET cleared == [st EXCEPT !.m_errors = ClearErrors(@)]
        parsed == ParseStack(cleared, name, source)
    IN IF parsed.fatal
       THEN [st |-> cleared, ret |-> FALSE, fatal |-> TRUE, visited |-> <<>>,
             newTree |-> FALSE]
       ELSE IF ~parsed.ret
       THEN [st |-> parsed.st, ret |-> FALSE, fatal |-> FALSE, visited |-> <<>>,
             newTree |-> parsed.newTree]
       ELSE IF \/ parsed.st.m_parserResult.present = FALSE
               \/ ~HasCode(parsed.st.m_parserResult.root)
       THEN [st |-> parsed.st, ret |-> FALSE, fatal |-> TRUE, visited |-> <<>>,
             newTree |-> parsed.newTree]
       ELSE [AnalyzeParsedStack(parsed.st) EXCEPT !.newTree = parsed.newTree]

\* YulStack::print, lines 387-400
PrintStack(st) ==
    IF \/ st.m_stackState < Parsed
       \/ st.m_parserResult.present = FALSE
       \/ ~HasCode(st.m_parserResult.root)
    THEN [fatal |-> TRUE, text |-> NullStream.source]
    ELSE [fatal |-> FALSE,
          text |-> [kind |-> "ir", unit |-> ObjectToString(st.m_parserResult.root), n |-> 0]]

\* line 260: the yulAssert on the result of the fresh instance's parseAndAnalyze
ReanalysisAccepted(reanalysisSuccessful) == reanalysisSuccessful

\* a reparse that takes over the diagnostics of the fresh instance as well
ErrorsKeptByReparse_Merged(errors, cleanErrors) == errors \o cleanErrors

\* lines 267-272: reparse adopts the tree of the fresh instance and keeps its own
\* char stream and errors
ErrorsKeptByReparse(errors, cleanErrors) == errors

\* YulStack::reparse, lines 248-273
ReparseStack(st) ==
    IF st.m_parserResult.present = FALSE \/ ~st.m_charStream.present
    THEN [st |-> st, fatal |-> TRUE, cleanErrors |-> <<>>, newTree |-> FALSE]
    ELSE
    LET source == PrintStack(st)
        clean == ParseAndAnalyzeStack(NewStack, st.m_charStream.name, source.text)
    IN IF source.fatal
       THEN [st |-> st, fatal |-> TRUE, cleanErrors |-> <<>>, newTree |-> FALSE]
       ELSE IF clean.fatal \/ ~ReanalysisAccepted(clean.ret)
       THEN [st |-> st, fatal |-> TRUE, cleanErrors |-> clean.st.m_errors, newTree |-> FALSE]
       ELSE [st |-> [st EXCEPT !.m_stackState = AnalysisSuccessful,
                               !.m_parserResult = clean.st.m_parserResult,
                               !.m_errors = ErrorsKeptByReparse(@, clean.st.m_errors)],
             fatal |-> FALSE,
             cleanErrors |-> clean.st.m_errors,
             newTree |-> TRUE]

\* an early return that looks for msize in the root object's own code only
OptimizeReturnsEarly_RootOnly(settings, root) ==
    ~settings.runYulOptimiser /\ root.body.msize

\* lines 113-117: the early return of optimize()
OptimizeReturnsEarly(settings, root) ==
    ~settings.runYulOptimiser /\ ContainsMSize(root)

\* YulStack::optimize(), lines 106-130.
\* path: "assert" (lines 108-109 failed), "noop" (line 117), "fault" (catch block),
\* "abort" (a yulAssert inside optimize(Object&) or reparse), "done"
OptimizeStack(st, settings) ==
    IF st.m_stackState < AnalysisSuccessful \/ st.m_parserResult.present = FALSE
    THEN [st |-> st, fatal |-> TRUE, path |-> "assert", log |-> <<>>,
          reparsed |-> FALSE, cleanErrors |-> <<>>, newTree |-> FALSE]
    ELSE IF OptimizeReturnsEarly(settings, st.m_parserResult.root)
    THEN [st |-> st, fatal |-> FALSE, path |-> "noop", log |-> <<>>,
          reparsed |-> FALSE, cleanErrors |-> <<>>, newTree |-> FALSE]
    ELSE
    LET r == OptimizeObject(st.m_parserResult.root, TRUE, settings)
        mutated == [st EXCEPT !.m_stackState = Parsed, !.m_parserResult.root = r.obj]
        re == ReparseStack(mutated)
    IN CASE r.status = "fatal" ->
              [st |-> mutated, fatal |-> TRUE, path |-> "abort", log |-> r.log,
               reparsed |-> FALSE, cleanErrors |-> <<>>, newTree |-> FALSE]
         [] r.status = "throw" ->
              [st |-> [mutated EXCEPT !.m_errors = ReportUnimplementedFeatureError(@)],
               fatal |-> FALSE, path |-> "fault", log |-> r.log,
               reparsed |-> FALSE, cleanErrors |-> <<>>, newTree |-> FALSE]
         [] OTHER ->
              [st |-> re.st, fatal |-> re.fatal,
               path |-> IF re.fatal THEN "abort" ELSE "done", log |-> r.log,
               reparsed |-> TRUE, cleanErrors |-> re.cleanErrors, newTree |-> re.newTree]

(***************************************************************************)
(* Assembly: evmasm::Assembly as built by EVMObjectCompiler::compile.      *)
(* One assembly per code object, sub-assemblies in declaration order (data *)
(* objects become data, not sub-assemblies); the sub-assemblies of an      *)
(* object are built before its own code is generated.                      *)
(***************************************************************************)
NullAssembly == [name |-> "", code |-> "none", optimize |-> FALSE, subs |-> <<>>]

RECURSIVE CompileObject(_, _, _)
CompileObject(o, name, optimize) ==
    LET RECURSIVE Loop(_, _)
        Loop(i, acc) ==
            IF i > Len(o.subs) \/ acc.throws THEN acc
            ELSE IF ~HasCode(o.subs[i]) THEN Loop(i + 1, acc)
            ELSE LET r == CompileObject(o.subs[i], o.subs[i].name, optimize)
                 IN Loop(i + 1, [subs |-> Append(acc.subs, r.asm), throws |-> r.throws])
        kids == Loop(1, [subs |-> <<>>, throws |-> FALSE])
        throws == kids.throws \/ o.body.gen = "unimpl"
    IN [asm |-> [name |-> name,
                 code |-> IF throws THEN "none" ELSE "gen",
                 optimize |-> optimize,
                 subs |-> kids.subs],
        throws |-> throws]

\* a flag that follows the stack-allocation setting alone
StackOptimizationFlag_SettingOnly(settings, root) == settings.optimizeStackAllocation

\* lines 345-348: the optimize flag handed to compileEVM
StackOptimizationFlag(settings, root) ==
    settings.optimizeStackAllocation \/ (~settings.runYulOptimiser /\ ~ContainsMSize(root))

\* a selection whose heuristic takes the first sub-assembly whenever there is one
SubIndex_FirstSub(subs, deployName) ==
    IF deployName.present
    THEN LET matches == {i \in 1..Len(subs) : subs[i].name = deployName.value}
         IN IF matches = {} THEN [failed |-> TRUE, index |-> 0]
            ELSE [failed |-> FALSE,
                  index |-> CHOOSE i \in matches : \A j \in matches : i <= j]
    ELSE IF Len(subs) >= 1 THEN [failed |-> FALSE, index |-> 1]
    ELSE [failed |-> FALSE, index |-> 0]

\* lines 355-371: the index of the sub-assembly to deploy (0: none);
\* failed is the solAssert of line 367
SubIndex(subs, deployName) ==
    IF deployName.present
    THEN LET matches == {i \in 1..Len(subs) : subs[i].name = deployName.value}
         IN IF matches = {} THEN [failed |-> TRUE, index |-> 0]
            ELSE [failed |-> FALSE,
                  index |-> CHOOSE i \in matches : \A j \in matches : i <= j]
    ELSE IF Len(subs) = 1 THEN [failed |-> FALSE, index |-> 1]
    ELSE [failed |-> FALSE, index |-> 0]

NoAssembly == [present |-> FALSE, assembly |-> NullAssembly]

\* YulStack::assembleEVMWithDeployed, lines 331-385
AssembleEVMWithDeployedStack(st, settings, deployName) ==
    IF \/ st.m_stackState < AnalysisSuccessful
       \/ st.m_parserResult.present = FALSE
       \/ ~HasCode(st.m_parserResult.root)
       \/ ~st.m_parserResult.root.analysisInfo
    THEN [st |-> st, fatal |-> TRUE, faulted |-> FALSE,
          creation |-> NoAssembly, deployed |-> NoAssembly]
    ELSE
    LET optimize == StackOptimizationFlag(settings, st.m_parserResult.root)
        c == CompileObject(st.m_parserResult.root, "", optimize)
        sub == SubIndex(c.asm.subs, deployName)
    IN IF c.throws
       THEN [st |-> [st EXCEPT !.m_errors = ReportUnimplementedFeatureError(@)],
             fatal |-> FALSE, faulted |-> TRUE,
             creation |-> [present |-> TRUE, assembly |-> c.asm],
             deployed |-> NoAssembly]
       ELSE IF sub.failed
       THEN [st |-> st, fatal |-> TRUE, faulted |-> FALSE,
             creation |-> NoAssembly, deployed |-> NoAssembly]
       ELSE [st |-> st, fatal |-> FALSE, faulted |-> FALSE,
             creation |-> [present |-> TRUE, assembly |-> c.asm],
             deployed |-> IF sub.index = 0 THEN NoAssembly
                          ELSE [present |-> TRUE, assembly |-> c.asm.subs[sub.index]]]

\* YulStack::assembleWithDeployed, lines 290-329: the assemblies of the two
\* MachineAssemblyObjects it returns
AssembleWithDeployedStack(st, settings, deployName) ==
    LET r == AssembleEVMWithDeployedStack(st, settings, deployName)
    IN IF r.fatal \/ ~r.creation.present \/ ~st.m_charStream.present
       THEN [r EXCEPT !.fatal = TRUE, !.creation = NoAssembly, !.deployed = NoAssembly]
       ELSE r

\* YulStack::assemble, lines 275-288
AssembleStack(st, settings) ==
    IF \/ st.m_stackState < AnalysisSuccessful
       \/ st.m_parserResult.present = FALSE
       \/ ~HasCode(st.m_parserResult.root)
       \/ ~st.m_parserResult.root.analysisInfo
    THEN [st |-> st, fatal |-> TRUE, faulted |-> FALSE,
          creation |-> NoAssembly, deployed |-> NoAssembly]
    ELSE [AssembleWithDeployedStack(st, settings, [present |-> FALSE, value |-> ""])
            EXCEPT !.deployed = NoAssembly]

(***************************************************************************)
(* The state machine: one YulStack instance and the calls made on it.      *)
(***************************************************************************)
VARIABLES
    m_optimiserSettings,  \* the settings the instance was constructed with
    m_stackState,
    m_parserResult,
    m_charStream,
    m_errors,
    parseReturnedTrue,    \* some parse() on this instance has returned true
    analyzeReturnedTrue,  \* some analyzeParsed()/parseAndAnalyze() has returned true
    call,                 \* the last public call: what it was and what it did
    suiteStackAllocation  \* the optimizeStackAllocation arguments of the suite runs of
                          \* the last optimize() that ran the suite

vars ==
    <<m_optimiserSettings, m_stackState, m_parserResult, m_charStream, m_errors,
      parseReturnedTrue, analyzeReturnedTrue, call, suiteStackAllocation>>

Self ==
    [m_stackState |-> m_stackState, m_parserResult |-> m_parserResult,
     m_charStream |-> m_charStream, m_errors |-> m_errors]

NoDeployName == [present |-> FALSE, value |-> ""]
DeployNames == {NoDeployName} \cup {[present |-> TRUE, value |-> n] : n \in {"A_deployed", "Runtime"}}

NoCall ==
    [op |-> "none", fatal |-> FALSE, ret |-> FALSE, path |-> "", log |-> <<>>,
     visited |-> <<>>, reparsed |-> FALSE, cleanErrors |-> <<>>, faulted |-> FALSE,
     creation |-> NoAssembly, deployed |-> NoAssembly, deployName |-> NoDeployName,
     newTree |-> FALSE, text |-> NullStream.source]

Init ==
    /\ m_optimiserSettings \in SettingsDomain
    /\ m_stackState = NewStack.m_stackState
    /\ m_parserResult = NewStack.m_parserResult
    /\ m_charStream = NewStack.m_charStream
    /\ m_errors = NewStack.m_errors
    /\ parseReturnedTrue = FALSE
    /\ analyzeReturnedTrue = FALSE
    /\ call = NoCall
    /\ suiteStackAllocation = {}

\* an assertion failure ends the use of the instance
Usable == ~call.fatal

\* the data members after a call
Becomes(st) ==
    /\ Len(st.m_errors) <= MaxErrors
    /\ m_stackState' = st.m_stackState
    /\ m_parserResult' = st.m_parserResult
    /\ m_charStream' = st.m_charStream
    /\ m_errors' = st.m_errors
    /\ UNCHANGED m_optimiserSettings

CallParse ==
    /\ Usable
    /\ \E name \in SourceNames, source \in ParseArguments(m_stackState) :
         \E r \in {ParseStack(Self, name, source)} :
            /\ Becomes(r.st)
            /\ parseReturnedTrue' = (parseReturnedTrue \/ r.ret)
            /\ UNCHANGED <<analyzeReturnedTrue, suiteStackAllocation>>
            /\ call' = [NoCall EXCEPT !.op = "parse", !.fatal = r.fatal, !.ret = r.ret,
                                      !.newTree = r.newTree]

CallAnalyzeParsed ==
    /\ Usable
    /\ \E r \in {AnalyzeParsedStack(Self)} :
          /\ Becomes(r.st)
          /\ analyzeReturnedTrue' = (analyzeReturnedTrue \/ r.ret)
          /\ UNCHANGED <<parseReturnedTrue, suiteStackAllocation>>
          /\ call' = [NoCall EXCEPT !.op = "analyzeParsed", !.fatal = r.fatal, !.ret = r.ret,
                                    !.visited = r.visited]

CallParseAndAnalyze ==
    /\ Usable
    /\ \E name \in SourceNames, source \in ParseArguments(m_stackState) :
         \E r \in {ParseAndAnalyzeStack(Self, name, source)} :
            /\ Becomes(r.st)
            /\ parseReturnedTrue' = (parseReturnedTrue \/ r.st.m_stackState >= Parsed)
            /\ analyzeReturnedTrue' = (analyzeReturnedTrue \/ r.ret)
            /\ UNCHANGED suiteStackAllocation
            /\ call' = [NoCall EXCEPT !.op = "parseAndAnalyze", !.fatal = r.fatal,
                                      !.ret = r.ret, !.visited = r.visited,
                                      !.newTree = r.newTree]

CallOptimize ==
    /\ Usable
    /\ \E r \in {OptimizeStack(Self, m_optimiserSettings)} :
          /\ Becomes(r.st)
          /\ UNCHANGED <<parseReturnedTrue, analyzeReturnedTrue>>
          /\ suiteStackAllocation' =
                IF r.log = <<>> THEN suiteStackAllocation
                ELSE {r.log[i].optimizeStackAllocation : i \in 1..Len(r.log)}
          /\ call' = [NoCall EXCEPT !.op = "optimize", !.fatal = r.fatal, !.path = r.path,
                                    !.log = r.log, !.reparsed = r.reparsed,
                                    !.cleanErrors = r.cleanErrors, !.newTree = r.newTree]

CallAssemble ==
    /\ Usable
    /\ \E r \in {AssembleStack(Self, m_optimiserSettings)} :
          /\ Becomes(r.st)
          /\ UNCHANGED <<parseReturnedTrue, analyzeReturnedTrue, suiteStackAllocation>>
          /\ call' = [NoCall EXCEPT !.op = "assemble", !.fatal = r.fatal,
                                    !.faulted = r.faulted,
                                    !.creation = r.creation, !.deployed = r.deployed]

CallAssembleWithDeployed ==
    /\ Usable
    /\ \E deployName \in DeployNames :
         \E r \in {AssembleWithDeployedStack(Self, m_optimiserSettings, deployName)} :
            /\ Becomes(r.st)
            /\ UNCHANGED <<parseReturnedTrue, analyzeReturnedTrue, suiteStackAllocation>>
            /\ call' = [NoCall EXCEPT !.op = "assembleWithDeployed", !.fatal = r.fatal,
                                      !.faulted = r.faulted, !.deployName = deployName,
                                      !.creation = r.creation, !.deployed = r.deployed]

\* print() and astJson() share their assertions and read the same tree
CallPrint ==
    /\ Usable
    /\ \E r \in {PrintStack(Self)} :
          /\ Becomes(Self)
          /\ UNCHANGED <<parseReturnedTrue, analyzeReturnedTrue, suiteStackAllocation>>
          /\ call' = [NoCall EXCEPT !.op = "print", !.fatal = r.fatal, !.text = r.text]

Next ==
    \/ CallParse
    \/ CallAnalyzeParsed
    \/ CallParseAndAnalyze
    \/ CallOptimize
    \/ CallAssemble
    \/ CallAssembleWithDeployed
    \/ CallPrint

Spec == Init /\ [][Next]_vars

(***************************************************************************)
(* Properties.                                                             *)
(***************************************************************************)
\* the code units of a tree, parent before children, children in declaration order
RECURSIVE CodeUnits(_)
CodeUnits(o) ==
    IF ~HasCode(o) THEN <<>>
    ELSE LET RECURSIVE Sub(_)
             Sub(i) == IF i > Len(o.subs) THEN <<>> ELSE CodeUnits(o.subs[i]) \o Sub(i + 1)
         IN <<o>> \o Sub(1)

UnitsOfTree == CodeUnits(m_parserResult.root)

SuiteDisabled == ~m_optimiserSettings.runYulOptimiser

ConfiguredSteps(steps, cleanup) ==
    /\ m_optimiserSettings.yulOptimiserSteps = steps
    /\ m_optimiserSettings.yulOptimiserCleanupSteps = cleanup

\* C1: analyzeParsed() before some parse() has returned true is a fatal assertion
\* failure, and assemble()/assembleWithDeployed() before some analyzeParsed() or
\* parseAndAnalyze() call has returned true is a fatal assertion failure.
C1_StageGating ==
    /\ (call.op = "analyzeParsed" /\ ~parseReturnedTrue) => call.fatal
    /\ (call.op \in {"assemble", "assembleWithDeployed"} /\ ~analyzeReturnedTrue) => call.fatal

\* C2: every optimize() call that starts in AnalysisSuccessful and does not take the
\* no-op path invokes the round-trip verifier before it returns, and on return the
\* state is AnalysisSuccessful and the working tree is a newly created one.
C2_OptimizeAlwaysReparses ==
    (call.op = "optimize" /\ ~call.fatal /\ call.path # "noop") =>
        /\ call.reparsed
        /\ m_stackState = AnalysisSuccessful
        /\ call.newTree

\* C3 as stated: with the suite disabled and steps and cleanup both empty, every suite
\* invocation receives stack-allocation optimization off, empty steps, empty cleanup.
C3_RunNothingStackAllocationOff ==
    (call.op = "optimize" /\ SuiteDisabled /\ ConfiguredSteps("", "")) =>
        \A i \in 1..Len(call.log) :
            /\ ~call.log[i].optimizeStackAllocation
            /\ call.log[i].steps = ""
            /\ call.log[i].cleanup = ""

\* C3 as amended: with the suite disabled and steps and cleanup both empty, every suite
\* invocation receives stack-allocation optimization ON, empty steps, empty cleanup.
C3_RunNothingStackAllocationOn ==
    (call.op = "optimize" /\ SuiteDisabled /\ ConfiguredSteps("", "")) =>
        \A i \in 1..Len(call.log) :
            /\ call.log[i].optimizeStackAllocation
            /\ call.log[i].steps = ""
            /\ call.log[i].cleanup = ""

\* the suite ran on several units under the disabled, empty configuration
C3_Witness ==
    /\ call.op = "optimize"
    /\ SuiteDisabled
    /\ ConfiguredSteps("", "")
    /\ Len(call.log) >= 2
    /\ call.path = "done"

\* C4: with the suite disabled and steps and cleanup equal to the defaults, every suite
\* invocation receives (stack allocation on, steps "u", empty cleanup); with the suite
\* enabled, every suite invocation receives the configured flag, steps and cleanup.
C4_FallbackAndVerbatim ==
    call.op = "optimize" =>
        \A i \in 1..Len(call.log) :
            /\ (/\ SuiteDisabled
                /\ ConfiguredSteps(DefaultYulOptimiserSteps, DefaultYulOptimiserCleanupSteps))
               => /\ call.log[i].optimizeStackAllocation
                  /\ call.log[i].steps = "u"
                  /\ call.log[i].cleanup = ""
            /\ ~SuiteDisabled
               => /\ call.log[i].optimizeStackAllocation
                        = m_optimiserSettings.optimizeStackAllocation
                  /\ call.log[i].steps = m_optimiserSettings.yulOptimiserSteps
                  /\ call.log[i].cleanup = m_optimiserSettings.yulOptimiserCleanupSteps

\* the suite ran on several units under the disabled, default configuration
C4_Witness ==
    /\ call.op = "optimize"
    /\ SuiteDisabled
    /\ ConfiguredSteps(DefaultYulOptimiserSteps, DefaultYulOptimiserCleanupSteps)
    /\ Len(call.log) >= 2
    /\ call.path = "done"

\* C5: an optimize() call made with the suite disabled on a tree that contains msize
\* returns at once: state, working tree (the same tree, unchanged) and diagnostics are
\* what they were, and neither the suite nor the round-trip verifier is invoked.
C5_SentinelNoOp ==
    [][ (/\ call'.op = "optimize"
         /\ m_stackState >= AnalysisSuccessful
         /\ m_parserResult.present
         /\ SuiteDisabled
         /\ ContainsMSize(m_parserResult.root))
        => /\ ~call'.fatal
           /\ m_stackState' = m_stackState
           /\ m_parserResult' = m_parserResult
           /\ m_errors' = m_errors
           /\ ~call'.newTree
           /\ call'.log = <<>>
           /\ ~call'.reparsed ]_vars

\* optimize() returned early on a tree whose msize is in a sub-object
C5_Witness ==
    /\ call.op = "optimize"
    /\ call.path = "noop"
    /\ ~m_parserResult.root.body.msize
    /\ ContainsMSize(m_parserResult.root)

\* the code sub-objects of an object, in declaration order
CodeSubs(o) == SelectSeq(o.subs, HasCode)

\* asm holds generated code for o and for every code unit below it, nested as in o
RECURSIVE IsFullAssembly(_, _)
IsFullAssembly(asm, o) ==
    /\ asm.code = "gen"
    /\ Len(asm.subs) = Len(CodeSubs(o))
    /\ \A i \in 1..Len(asm.subs) :
          /\ asm.subs[i].name = CodeSubs(o)[i].name
          /\ IsFullAssembly(asm.subs[i], CodeSubs(o)[i])

\* assembleWithDeployed() was called in a state that passes its stage assertions
AssembleWithDeployedAccepted ==
    /\ call.op = "assembleWithDeployed"
    /\ m_stackState >= AnalysisSuccessful
    /\ m_parserResult.present
    /\ m_parserResult.root.analysisInfo

\* what C6 says of the outcome: creation is the full assembly; with a name the first
\* sub-assembly of that name is deployed and a missing one is fatal; without a name the
\* only sub-assembly is deployed, and nothing when there are none or several
SelectionAsSpecified ==
    LET subs == CodeSubs(m_parserResult.root)
        matches == {i \in 1..Len(subs) : subs[i].name = call.deployName.value}
        first == CHOOSE i \in matches : \A j \in matches : i <= j
    IN IF call.deployName.present /\ matches = {}
       THEN call.fatal
       ELSE /\ ~call.fatal
            /\ call.creation.present
            /\ IsFullAssembly(call.creation.assembly, m_parserResult.root)
            /\ IF call.deployName.present
               THEN /\ call.deployed.present
                    /\ call.deployed.assembly = call.creation.assembly.subs[first]
               ELSE /\ call.deployed.present <=> Len(subs) = 1
                    /\ call.deployed.present
                         => call.deployed.assembly = call.creation.assembly.subs[1]

Analyzes(body) == body.an \in {"ok", "warn"}

\* C7: analyzeParsed visits every code unit of the tree, whatever failed or raised a
\* fault on the way, and returns the conjunction of the units' results.
C7_AnalyzerVisitsAll ==
    (call.op = "analyzeParsed" /\ ~call.fatal) =>
        /\ call.visited = [i \in 1..Len(UnitsOfTree) |-> UnitsOfTree[i].name]
        /\ call.ret = (\A i \in 1..Len(UnitsOfTree) : Analyzes(UnitsOfTree[i].body))

\* C8: a tree mutated by optimize() is held with state AnalysisSuccessful only after the
\* round trip through a fresh instance succeeded; a failed round trip is fatal.
C8_NoUnverifiedMutatedTree ==
    /\ (call.op = "optimize" /\ call.reparsed /\ ~call.newTree) => call.fatal
    /\ m_stackState = AnalysisSuccessful =>
          \A i \in 1..Len(UnitsOfTree) : ~UnitsOfTree[i].mutated

\* C9: a successful optimize()/reparse replaces the working tree and nothing else:
\* source text, source name and diagnostics are what they were before the call.
C9_ReparseFrame ==
    [][ (call'.op = "optimize" /\ call'.path = "done")
        => /\ call'.newTree
           /\ m_charStream' = m_charStream
           /\ m_errors' = m_errors
           /\ m_stackState' = m_stackState ]_vars

\* optimize() succeeded although the fresh instance collected a diagnostic
C9_Witness ==
    /\ call.op = "optimize"
    /\ call.path = "done"
    /\ call.cleanErrors # <<>>
    /\ call.newTree

\* C10: parse() outside state Empty is fatal; when the parser raises an
\* unimplemented-feature fault, parse() records exactly one diagnostic, returns false
\* and leaves the state Empty; when the parser returns a tree and the diagnostic list
\* is empty after parsing, the state becomes Parsed and the new tree is stored.
C10_Parse ==
    [][ call'.op = "parse" =>
          IF m_stackState # Empty
          THEN call'.fatal /\ m_stackState' = m_stackState
          ELSE /\ ~call'.fatal
               /\ m_charStream'.source.kind = "unimpl"
                    => /\ m_errors' = Append(m_errors, "Unimplemented1920")
                       /\ ~call'.ret
                       /\ m_stackState' = Empty
               /\ (m_charStream'.source.kind = "ir" /\ m_errors' = <<>>)
                    => /\ call'.ret
                       /\ m_stackState' = Parsed
                       /\ call'.newTree
                       /\ m_parserResult'.present
                       /\ ObjectToString(m_parserResult'.root) = m_charStream'.source.unit
      ]_vars

\* parse() has caught a fault of the parser
C10_Witness ==
    /\ call.op = "parse"
    /\ ~call.fatal
    /\ m_charStream.source.kind = "unimpl"
    /\ m_stackState = Empty
    /\ m_errors = <<"Unimplemented1920">>

\* the names of the code units of a tree in post-order: the units below each
\* child, children in declaration order, then the unit itself
RECURSIVE PostOrder(_)
PostOrder(o) ==
    IF ~HasCode(o) THEN <<>>
    ELSE LET RECURSIVE Sub(_)
             Sub(i) == IF i > Len(o.subs) THEN <<>> ELSE PostOrder(o.subs[i]) \o Sub(i + 1)
         IN Append(Sub(1), o.name)

\* the units named by a record of suite invocations
LogUnits(log) == [i \in 1..Len(log) |-> log[i].unit]

\* the invocations of a record on which the suite raises a fault, for the tree
\* the call started from
FaultingCalls(root, log) ==
    {i \in 1..Len(log) :
        \E k \in 1..Len(CodeUnits(root)) :
            /\ CodeUnits(root)[k].name = log[i].unit
            /\ CodeUnits(root)[k].body.opt = "unimpl"}

\* C11: when the suite raises an unimplemented-feature fault on a unit during
\* optimize(), that invocation is the last one (the units passed to the suite are
\* the post-order up to and including the faulting unit, nothing after it), exactly
\* one diagnostic is appended and optimize() returns normally.
C11_FaultAbortsWholeTree ==
    [][ (call'.op = "optimize" /\ FaultingCalls(m_parserResult.root, call'.log) # {})
        => /\ FaultingCalls(m_parserResult.root, call'.log) = {Len(call'.log)}
           /\ Len(call'.log) <= Len(PostOrder(m_parserResult.root))
           /\ LogUnits(call'.log) = SubSeq(PostOrder(m_parserResult.root), 1, Len(call'.log))
           /\ m_errors' = Append(m_errors, "Unimplemented1920")
           /\ ~call'.fatal
           /\ call'.path = "fault" ]_vars

\* optimize() stopped at the first of three units: its sibling and the root were
\* never passed to the suite
C11_Witness ==
    /\ call.op = "optimize"
    /\ call.path = "fault"
    /\ ~call.fatal
    /\ Len(call.log) = 1
    /\ Len(CodeUnits(m_parserResult.root)) = 3
    /\ m_errors = <<"Unimplemented1920">>

\* C12: when optimize() ends by reporting an unimplemented-feature diagnostic, the
\* pipeline state and the working tree are those that held before the call; only
\* the diagnostic list has grown.
C12_NoPartialOptimization ==
    [][ (call'.op = "optimize" /\ call'.path = "fault")
        => /\ m_stackState' = m_stackState
           /\ m_parserResult' = m_parserResult
           /\ m_errors' = Append(m_errors, "Unimplemented1920") ]_vars

\* the optimize flags the code generator was handed for an assembly and its
\* sub-assemblies
RECURSIVE AssemblyFlags(_)
AssemblyFlags(asm) ==
    {asm.optimize} \cup UNION {AssemblyFlags(asm.subs[i]) : i \in 1..Len(asm.subs)}

AssembleCalled == call.op \in {"assemble", "assembleWithDeployed"} /\ ~call.fatal

\* C13: when optimize() has run the suite on the tree and assemble() or
\* assembleWithDeployed() is called afterwards, the optimize flag handed to the code
\* generator equals the stack-allocation flag optimize() passed to the suite; the flag
\* is true whenever the stack-allocation setting is on or the suite is disabled and
\* the tree lacks msize.
C13_StackAllocationAgrees ==
    (AssembleCalled /\ suiteStackAllocation # {})
    => /\ AssemblyFlags(call.creation.assembly) = suiteStackAllocation
       /\ ( \/ m_optimiserSettings.optimizeStackAllocation
            \/ (SuiteDisabled /\ ~ContainsMSize(m_parserResult.root)) )
          => AssemblyFlags(call.creation.assembly) = {TRUE}

\* assemble() after an optimize() with the suite disabled and the setting off: both
\* levels ran with stack allocation on
C13_Witness ==
    /\ AssembleCalled
    /\ suiteStackAllocation = {TRUE}
    /\ SuiteDisabled
    /\ ~m_optimiserSettings.optimizeStackAllocation
    /\ call.creation.assembly.optimize

\* C14: in an optimize() whose suite runs all return, the suite is invoked exactly
\* once on every code unit of the tree and on nothing else, in post-order: the units
\* below each child first, children in declaration order, the root last.
C14_PostOrder ==
    [][ (call'.op = "optimize" /\ call'.reparsed)
        => LogUnits(call'.log) = PostOrder(m_parserResult.root) ]_vars

\* a three-level tree was optimized from the innermost unit outwards
C14_Witness ==
    /\ call.op = "optimize"
    /\ call.path = "done"
    /\ LogUnits(call.log) = <<"Lib", "C_deployed", "C">>

\* C15: in every suite invocation of optimize() the root is creation code, any other
\* unit is runtime code iff its own name ends with "_deployed", and the
\* expected-executions weight is passed exactly for the runtime units.
C15_CreationAndWeight ==
    call.op = "optimize"
    => \A i \in 1..Len(call.log) :
         /\ call.log[i].isCreation =
              ( \/ call.log[i].unit = m_parserResult.root.name
                \/ ~EndsWith(call.log[i].unit, "_deployed") )
         /\ call.log[i].weight =
              IF call.log[i].isCreation
              THEN [present |-> FALSE, value |-> 0]
              ELSE [present |-> TRUE,
                    value |-> m_optimiserSettings.expectedExecutionsPerDeployment]

\* a creation unit nested in a runtime unit: Lib below C_deployed
C15_Witness ==
    /\ call.op = "optimize"
    /\ Len(call.log) = 3
    /\ call.log[1].unit = "Lib" /\ call.log[1].isCreation /\ ~call.log[1].weight.present
    /\ call.log[2].unit = "C_deployed" /\ ~call.log[2].isCreation
    /\ call.log[2].weight = [present |-> TRUE, value |-> 200]
    /\ call.log[3].unit = "C" /\ call.log[3].isCreation /\ ~call.log[3].weight.present

IsPrefix(a, b) == Len(a) <= Len(b) /\ SubSeq(b, 1, Len(a)) = a

\* C16: parse(), analyzeParsed(), optimize(), assemble(), assembleWithDeployed(),
\* print() and astJson() leave the previous diagnostic list as a prefix of the new
\* one; parseAndAnalyze() empties the list at its start, so that afterwards the list
\* holds what the call itself reported and nothing of earlier calls.
C16_DiagnosticsAccumulate ==
    [][ /\ call'.op # "parseAndAnalyze" => IsPrefix(m_errors, m_errors')
        /\ call'.op = "parseAndAnalyze" =>
             m_errors' =
               IF call'.fatal THEN <<>>
               ELSE ParseAndAnalyzeStack(NewStack, m_charStream'.name,
                                         m_charStream'.source).st.m_errors ]_vars

\* two calls of optimize() have each added their diagnostic to the list
C16_Witness ==
    /\ call.op = "optimize"
    /\ call.path = "fault"
    /\ m_errors = <<"Unimplemented1920", "Unimplemented1920">>

\* C17: analyzeParsed() or parseAndAnalyze() returning false never moves the state to
\* AnalysisSuccessful: a call that returns false leaves the state as it was (Parsed
\* after the parse step of parseAndAnalyze).
C17_FailedAnalysisKeepsState ==
    [][ (call'.op \in {"analyzeParsed", "parseAndAnalyze"} /\ ~call'.fatal /\ ~call'.ret)
        => (m_stackState' = AnalysisSuccessful => m_stackState = AnalysisSuccessful) ]_vars

\* C18: in every state with state >= Parsed the instance holds a tree that has code.
C18_ParsedHasTree ==
    m_stackState >= Parsed => (m_parserResult.present /\ HasCode(m_parserResult.root))

\* C19: parse() in state Empty is legal and returns true exactly when the diagnostic
\* list is empty after parsing; with diagnostics left by an earlier call it returns
\* false and leaves the state Empty, whatever the input.
C19_StaleDiagnosticsFailParse ==
    [][ (call'.op = "parse" /\ m_stackState = Empty)
        => /\ ~call'.fatal
           /\ call'.ret <=> (m_errors' = <<>>)
           /\ call'.ret <=> (m_stackState' = Parsed)
           /\ m_errors # <<>> => (~call'.ret /\ m_stackState' = Empty) ]_vars

\* a second parse() was given valid source text and still returned false
C19_Witness ==
    /\ call.op = "parse"
    /\ ~call.fatal
    /\ ~call.ret
    /\ m_charStream.source.kind = "ir"
    /\ m_parserResult.present
    /\ m_stackState = Empty
    /\ m_errors # <<>>

\* C20: with the suite disabled, a tree without msize and configured sequences that
\* are neither both empty nor both the defaults, optimize() ends in a fatal assertion
\* failure before any suite invocation, with the state already reset to Parsed and no
\* diagnostic added.
C20_OtherSequencesAreFatal ==
    [][ ( /\ call'.op = "optimize"
          /\ m_stackState = AnalysisSuccessful
          /\ m_parserResult.present
          /\ SuiteDisabled
          /\ ~ContainsMSize(m_parserResult.root)
          /\ ~ConfiguredSteps("", "")
          /\ ~ConfiguredSteps(DefaultYulOptimiserSteps, DefaultYulOptimiserCleanupSteps) )
        => /\ call'.fatal
           /\ call'.log = <<>>
           /\ m_stackState' = Parsed
           /\ m_errors' = m_errors ]_vars

\* optimize() of a fully analysed three-unit tree failed its assertion on the
\* configured sequences "ul" and "f"
C20_Witness ==
    /\ call.op = "optimize"
    /\ call.fatal
    /\ call.path = "abort"
    /\ call.log = <<>>
    /\ m_stackState = Parsed
    /\ SuiteDisabled
    /\ ConfiguredSteps("ul", "f")
    /\ Len(CodeUnits(m_parserResult.root)) = 3
    /\ \A k \in 1..3 : CodeUnits(m_parserResult.root)[k].analysisInfo

====
